---------------------------- MODULE Spec2Model ----------------------------
(***************************************************************************)
(* TakeOff: a Slack bot that merges GitHub pull requests on demand.        *)
(*                                                                         *)
(* The module models                                                       *)
(*   - src/auth.py, src/config.py   : the allow-list (SpecAuth)            *)
(*   - src/slack_handler.py         : verify_slack_signature (SpecVerify), *)
(*                                    extract_pr, has_merge_intent,        *)
(*                                    handle_message_event (Spec)          *)
(*   - src/github_client.py         : _get_pr_state, _parse_merge_response *)
(*                                    (SpecClassify), merge_pull_request   *)
(*                                    (Spec)                               *)
(*   - src/main.py                  : slack_events (Spec)                  *)
(*                                                                         *)
(* Text is a sequence of one-character strings; a byte string is a         *)
(* sequence of byte tokens ("a" is 0x61, "xC3" is 0xC3, ...).  A Python    *)
(* call either returns a value or raises: Return(v) / Raise(e).            *)
(***************************************************************************)
EXTENDS Integers, Sequences, FiniteSets, TLC

VARIABLES
    runs,    \* run slot -> the background task handle_message_event of one request
    last,    \* what slack_events did with the latest webhook request
    call,    \* pure-function specifications: the arguments of the call
    ret,     \* pure-function specifications: [done, out] of the call
    pull     \* the pull request as the code-hosting platform holds it

vars == <<runs, last, call, ret, pull>>

(***************************************************************************)
(* Python values                                                           *)
(***************************************************************************)
Return(v) == [exc |-> "", value |-> v]

Raise(e) == [exc |-> e, value |-> FALSE]

Range(s) == {s[i] : i \in 1..Len(s)}

\* All sequences over S of length 0..n.
SeqsUpTo(S, n) == UNION {[1..k -> S] : k \in 0..n}

\* str.strip(): whitespace is removed at both ends only.
Whitespace == {" ", "\t", "\n"}

RECURSIVE LStrip(_)
LStrip(s) ==
    IF s # <<>> /\ Head(s) \in Whitespace THEN LStrip(Tail(s)) ELSE s

RECURSIVE RStrip(_)
RStrip(s) ==
    IF s # <<>> /\ s[Len(s)] \in Whitespace
    THEN RStrip(SubSeq(s, 1, Len(s) - 1))
    ELSE s

Strip(s) == RStrip(LStrip(s))

\* str.split(sep) for a one-character separator: the fields between the
\* separators, empty fields included ("".split(",") is [""]).
RECURSIVE Split(_, _)
Split(s, sep) ==
    IF \E i \in 1..Len(s) : s[i] = sep
    THEN LET i == CHOOSE j \in 1..Len(s) :
                      s[j] = sep /\ \A k \in 1..(j - 1) : s[k] # sep
         IN  <<SubSeq(s, 1, i - 1)>> \o Split(SubSeq(s, i + 1, Len(s)), sep)
    ELSE <<s>>

(***************************************************************************)
(* src/config.py, src/auth.py                                              *)
(***************************************************************************)
\* Settings.authorized_user_ids without the "if uid.strip()" filter.
authorized_user_ids_unfiltered(authorized_slack_user_ids) ==
    {Strip(uid) : uid \in Range(Split(authorized_slack_user_ids, ","))}

\* Settings.authorized_user_ids: the stripped, non-empty fields of the
\* comma-separated setting.
authorized_user_ids(authorized_slack_user_ids) ==
    {Strip(uid) : uid \in
        {u \in Range(Split(authorized_slack_user_ids, ",")) : Strip(u) # <<>>}}

\* Every sender is let through.
is_authorized_everyone(slack_user_id, authorized_slack_user_ids) == TRUE

\* is_authorized(slack_user_id, settings)
is_authorized(slack_user_id, authorized_slack_user_ids) ==
    LET authorized == authorized_user_ids(authorized_slack_user_ids)
    IN  IF authorized = {} THEN FALSE ELSE slack_user_id \in authorized

(***************************************************************************)
(* SpecAuth: is_authorized applied to every setting and sender id within   *)
(* the bounds.                                                             *)
(***************************************************************************)
MaxCfgLen == 4

MaxIdLen == 2

CfgChars == {",", " ", "a", "b"}

IdChars == {"a", "b", " "}

NoCall == [fn |-> "none"]

NoRet == [done |-> FALSE, out |-> Return(FALSE)]

NoRuns == <<>>

NoLast == [status |-> 0]

\* The pull request on the platform: open and not merged, and the calls
\* the platform has answered for it so far, in order.
NoPull == [merged |-> FALSE, log |-> <<>>]

InitAuth ==
    /\ runs = NoRuns
    /\ last = NoLast
    /\ call \in [fn : {"is_authorized"},
                 slack_user_id : SeqsUpTo(IdChars, MaxIdLen),
                 authorized_slack_user_ids : SeqsUpTo(CfgChars, MaxCfgLen)]
    /\ ret = NoRet
    /\ pull = NoPull

CallIsAuthorized ==
    /\ call.fn = "is_authorized"
    /\ ~ret.done
    /\ ret' = [done |-> TRUE,
               out |-> Return(is_authorized(call.slack_user_id,
                                            call.authorized_slack_user_ids))]
    /\ UNCHANGED <<runs, last, call, pull>>

NextAuth == CallIsAuthorized

SpecAuth == InitAuth /\ [][NextAuth]_vars

\* The setting holds nothing but commas and whitespace.
OnlyCommasAndWhitespace(s) == \A i \in 1..Len(s) : s[i] \in {","} \cup Whitespace

\* id occurs in s as a whole comma-delimited field, up to surrounding
\* whitespace: stated over positions, without split or strip.
IsField(id, s) ==
    \E i \in 1..(Len(s) + 1), j \in 0..Len(s) :
        /\ i <= j + 1
        /\ i = 1 \/ s[i - 1] = ","
        /\ j = Len(s) \/ s[j + 1] = ","
        /\ \A k \in i..j : s[k] # ","
        /\ \E a \in i..(j + 1), b \in (i - 1)..j :
              /\ SubSeq(s, a, b) = id
              /\ \A k \in i..(a - 1) : s[k] \in Whitespace
              /\ \A k \in (b + 1)..j : s[k] \in Whitespace

\* C10: is_authorized is false for every sender id, the empty one included,
\* whenever the authorized set is empty (in particular when the setting
\* holds only commas and whitespace), and otherwise it is exactly whether
\* the sender id is one of the configured ids.
C10_FailSafeAllowList ==
    (call.fn = "is_authorized" /\ ret.done) =>
        /\ ret.out.exc = ""
        /\ OnlyCommasAndWhitespace(call.authorized_slack_user_ids)
              => ret.out.value = FALSE
        /\ authorized_user_ids(call.authorized_slack_user_ids) = {}
              => ret.out.value = FALSE
        /\ ret.out.value =
              /\ call.slack_user_id # <<>>
              /\ Strip(call.slack_user_id) = call.slack_user_id
              /\ IsField(call.slack_user_id, call.authorized_slack_user_ids)

\* The empty sender id is refused under a setting of commas and whitespace.
C10_Witness ==
    /\ call.fn = "is_authorized"
    /\ ret.done
    /\ call.slack_user_id = <<>>
    /\ call.authorized_slack_user_ids = <<",", " ", ",">>
    /\ ret.out.value = FALSE

(***************************************************************************)
(* Text encodings and the standard-library calls of verify_slack_signature *)
(***************************************************************************)
\* Byte tokens above 0x7F.  "xC3" "xA9" is the UTF-8 form of U+00E9; "xFF"
\* occurs in no UTF-8 text.
HighBytes == {"xC3", "xA9", "xFF"}

\* Characters outside ASCII.
NonAscii == {"U+E9"}

\* bytes.decode("utf-8"): ASCII bytes are their characters, a two-byte form
\* is one character, anything else raises.
RECURSIVE utf8_decode(_)
utf8_decode(b) ==
    IF b = <<>> THEN Return(<<>>)
    ELSE IF Head(b) \notin HighBytes
    THEN LET rest == utf8_decode(Tail(b))
         IN  IF rest.exc # "" THEN rest ELSE Return(<<Head(b)>> \o rest.value)
    ELSE IF Len(b) >= 2 /\ b[1] = "xC3" /\ b[2] = "xA9"
    THEN LET rest == utf8_decode(SubSeq(b, 3, Len(b)))
         IN  IF rest.exc # "" THEN rest ELSE Return(<<"U+E9">> \o rest.value)
    ELSE Raise("UnicodeDecodeError")

\* str.encode("utf-8")
RECURSIVE utf8_encode(_)
utf8_encode(s) ==
    IF s = <<>> THEN <<>>
    ELSE (IF Head(s) = "U+E9" THEN <<"xC3", "xA9">> ELSE <<Head(s)>>)
         \o utf8_encode(Tail(s))

Digits == {"0", "1", "2", "3", "4", "5", "6", "7", "8", "9"}

DigitVal(c) ==
    CASE c = "0" -> 0 [] c = "1" -> 1 [] c = "2" -> 2 [] c = "3" -> 3
      [] c = "4" -> 4 [] c = "5" -> 5 [] c = "6" -> 6 [] c = "7" -> 7
      [] c = "8" -> 8 [] c = "9" -> 9

RECURSIVE DigitsVal(_)
DigitsVal(s) ==
    IF s = <<>> THEN 0
    ELSE IF s[Len(s)] = "_" THEN DigitsVal(SubSeq(s, 1, Len(s) - 1))
    ELSE 10 * DigitsVal(SubSeq(s, 1, Len(s) - 1)) + DigitVal(s[Len(s)])

\* int(str): surrounding whitespace, one optional sign, then digits with
\* single underscores between them; anything else raises ValueError.
int(s) ==
    LET t == Strip(s)
        signed == t # <<>> /\ Head(t) \in {"+", "-"}
        d == IF signed THEN Tail(t) ELSE t
        wellformed ==
            /\ d # <<>>
            /\ \A i \in 1..Len(d) : d[i] \in Digits \cup {"_"}
            /\ d[1] # "_" /\ d[Len(d)] # "_"
            /\ \A i \in 1..(Len(d) - 1) : ~(d[i] = "_" /\ d[i + 1] = "_")
    IN  IF ~wellformed THEN Raise("ValueError")
        ELSE Return(IF signed /\ Head(t) = "-" THEN 0 - DigitsVal(d)
                    ELSE DigitsVal(d))

\* str(n) for n >= 0
RECURSIVE str(_)
str(n) ==
    IF n < 10 THEN <<CHOOSE c \in Digits : DigitVal(c) = n>>
    ELSE str(n \div 10) \o <<CHOOSE c \in Digits : DigitVal(c) = n % 10>>

\* hmac.new(key, msg, hashlib.sha256).hexdigest(): the 64 hexadecimal
\* characters of the digest, as one token that is a different token for
\* every different (key, msg): the keyed hash is taken to be collision-free.
hmac_sha256_hexdigest(key, msg) == ToString(<<key, msg>>)

\* hmac.compare_digest(a, b) on two str: TypeError unless both are ASCII.
compare_digest(a, b) ==
    IF \E c \in Range(a) \cup Range(b) : c \in NonAscii
    THEN Raise("TypeError")
    ELSE Return(a = b)

abs(x) == IF x < 0 THEN 0 - x ELSE x

(***************************************************************************)
(* src/slack_handler.py: verify_slack_signature                            *)
(* The clock time.time() is an argument, in half seconds (now2): the       *)
(* clock is a float, the timestamp an integer number of seconds.           *)
(***************************************************************************)
ReplayWindow == 300

\* The replay check with the window applied to the past only.
too_old_or_new_onesided(now2, request_time) ==
    now2 - 2 * request_time > 2 * ReplayWindow

\* abs(time.time() - request_time) > 300
too_old_or_new(now2, request_time) ==
    abs(now2 - 2 * request_time) > 2 * ReplayWindow

verify_slack_signature(body, timestamp, signature, signing_secret, now2) ==
    LET request_time == int(timestamp)
    IN  IF request_time.exc = "ValueError" THEN Return(FALSE)
        ELSE IF too_old_or_new(now2, request_time.value) THEN Return(FALSE)
        ELSE LET text == utf8_decode(body)
             IN  IF text.exc # "" THEN Raise(text.exc)
                 ELSE LET base_string ==
                              <<"v", "0", ":">> \o timestamp \o <<":">> \o text.value
                          expected ==
                              <<"v", "0", "=">>
                              \o <<hmac_sha256_hexdigest(
                                       utf8_encode(signing_secret),
                                       utf8_encode(base_string))>>
                      IN  compare_digest(expected, signature)

(***************************************************************************)
(* SpecVerify: verify_slack_signature applied to a signed request, as sent *)
(* or with one byte of the body, the timestamp or the signature changed,   *)
(* or checked against another secret.                                      *)
(***************************************************************************)
MaxBodyLen == 2

TsSpread == 1

NowBase == 1000

BodyBytes == {"a", "xC3", "xA9", "xFF"}

HeaderChars == {"0", "1", " ", "x", "U+E9"}

Secrets == {<<"k">>, <<"j">>}

\* The signature the sender computes: "v0=" and the keyed hash of
\* b"v0:" + timestamp + b":" + body under the secret.
Sign(secret, timestamp, body) ==
    <<"v", "0", "=">>
    \o <<hmac_sha256_hexdigest(
             utf8_encode(secret),
             utf8_encode(<<"v", "0", ":">> \o timestamp \o <<":">>) \o body)>>

\* Timestamps at the clock, at both edges of the replay window and beyond.
TsValues ==
    {NowBase + d : d \in (0 - ReplayWindow - TsSpread)..(TsSpread - ReplayWindow)}
    \cup {NowBase + d : d \in (0 - TsSpread)..TsSpread}
    \cup {NowBase + d : d \in (ReplayWindow - TsSpread)..(ReplayWindow + TsSpread)}

\* s with the byte at position i replaced by another one of chars.
OneByteChanged(s, chars) ==
    {[s EXCEPT ![i] = c] : i \in 1..Len(s), c \in chars} \ {s}

\* What the sender signed.
Sent ==
    [body : SeqsUpTo(BodyBytes, MaxBodyLen),
     timestamp : {str(n) : n \in TsValues},
     secret : Secrets]

\* What arrives of the signed request s: s itself, or s with one byte of
\* one part changed, or s checked against another secret.
Arrivals(s) ==
    LET Arrives(changed, body, timestamp, signature, signing_secret) ==
            [fn |-> "verify_slack_signature", sent |-> s, changed |-> changed,
             body |-> body, timestamp |-> timestamp, signature |-> signature,
             signing_secret |-> signing_secret]
        sig == Sign(s.secret, s.timestamp, s.body)
    IN  {Arrives("none", s.body, s.timestamp, sig, s.secret)}
        \cup {Arrives("body", b, s.timestamp, sig, s.secret) :
                b \in OneByteChanged(s.body, BodyBytes)}
        \cup {Arrives("timestamp", s.body, t, sig, s.secret) :
                t \in OneByteChanged(s.timestamp, HeaderChars)}
        \cup {Arrives("signature", s.body, s.timestamp, g, s.secret) :
                g \in OneByteChanged(sig, HeaderChars)}
        \cup {Arrives("secret", s.body, s.timestamp, sig, k) :
                k \in Secrets \ {s.secret}}

InitVerify ==
    /\ runs = NoRuns
    /\ last = NoLast
    /\ \E s \in Sent :
          \E c \in Arrivals(s), half \in {0, 1} :
              call = [fn |-> c.fn, sent |-> c.sent, changed |-> c.changed,
                      body |-> c.body, timestamp |-> c.timestamp,
                      signature |-> c.signature, signing_secret |-> c.signing_secret,
                      now2 |-> 2 * NowBase + half]
    /\ ret = NoRet
    /\ pull = NoPull

CallVerify ==
    /\ call.fn = "verify_slack_signature"
    /\ ~ret.done
    /\ ret' = [done |-> TRUE,
               out |-> verify_slack_signature(call.body, call.timestamp,
                           call.signature, call.signing_secret, call.now2)]
    /\ UNCHANGED <<runs, last, call, pull>>

NextVerify == CallVerify

SpecVerify == InitVerify /\ [][NextVerify]_vars

\* The timestamp header is a number of seconds more than the replay window
\* away from the clock, on either side.
OutsideWindow(timestamp, now2) ==
    /\ int(timestamp).exc = ""
    /\ \/ 2 * int(timestamp).value < now2 - 2 * ReplayWindow
       \/ 2 * int(timestamp).value > now2 + 2 * ReplayWindow

\* C8: verify_slack_signature returns false whenever the timestamp is more
\* than 300 seconds from the clock, before it or after it, whether or not
\* the signature is the right one.
C8_ReplayWindowSymmetric ==
    (call.fn = "verify_slack_signature" /\ ret.done
        /\ OutsideWindow(call.timestamp, call.now2))
    => (ret.out.exc = "" /\ ret.out.value = FALSE)

\* A correctly signed request stamped 301 seconds after the clock is refused.
C8_Witness ==
    /\ call.fn = "verify_slack_signature"
    /\ ret.done
    /\ call.changed = "none"
    /\ call.timestamp = str(NowBase + ReplayWindow + 1)
    /\ call.now2 = 2 * NowBase
    /\ ret.out.exc = ""
    /\ ret.out.value = FALSE

\* C9: with the signature of (body, timestamp, secret) and a timestamp in
\* the replay window the call returns true; with one byte of the body, the
\* timestamp or the signature changed, or another secret, it returns false.
C9_SignatureRoundTrip ==
    (call.fn = "verify_slack_signature" /\ ret.done) =>
        /\ (call.changed = "none" /\ ~OutsideWindow(call.timestamp, call.now2))
              => (ret.out.exc = "" /\ ret.out.value = TRUE)
        /\ call.changed # "none"
              => (ret.out.exc = "" /\ ret.out.value = FALSE)

(***************************************************************************)
(* JSON values as Python sees them after response.json()                   *)
(***************************************************************************)
JAbsent == [t |-> "absent", s |-> <<>>]

JNull == [t |-> "null", s |-> <<>>]

JTrue == [t |-> "true", s |-> <<>>]

JFalse == [t |-> "false", s |-> <<>>]

JNum(digits) == [t |-> "number", s |-> digits]

JStr(chars) == [t |-> "string", s |-> chars]

\* bool(v): None, False, 0 and "" are falsy (a missing key reads as None).
truthy(v) ==
    CASE v.t \in {"absent", "null", "false"} -> FALSE
      [] v.t = "true" -> TRUE
      [] v.t = "number" -> v.s # <<"0">>
      [] v.t = "string" -> v.s # <<>>

\* str(v)
py_str(v) ==
    CASE v.t \in {"absent", "null"} -> <<"N", "o", "n", "e">>
      [] v.t = "true" -> <<"T", "r", "u", "e">>
      [] v.t = "false" -> <<"F", "a", "l", "s", "e">>
      [] v.t \in {"number", "string"} -> v.s

UpperLetters ==
    <<"A", "B", "C", "D", "E", "F", "G", "H", "I", "J", "K", "L", "M",
      "N", "O", "P", "Q", "R", "S", "T", "U", "V", "W", "X", "Y", "Z">>

LowerLetters ==
    <<"a", "b", "c", "d", "e", "f", "g", "h", "i", "j", "k", "l", "m",
      "n", "o", "p", "q", "r", "s", "t", "u", "v", "w", "x", "y", "z">>

\* str.lower()
lower(s) ==
    [i \in 1..Len(s) |->
        IF \E k \in 1..26 : UpperLetters[k] = s[i]
        THEN LowerLetters[CHOOSE k \in 1..26 : UpperLetters[k] = s[i]]
        ELSE s[i]]

\* sub in s
contains(s, sub) ==
    \E i \in 1..(Len(s) - Len(sub) + 1) : SubSeq(s, i, i + Len(sub) - 1) = sub

(***************************************************************************)
(* src/github_client.py: the classification of the two responses           *)
(*                                                                         *)
(* A response is [status_code, json, merged, state, mergeable, message]:   *)
(* json says what response.json() does ("object": a dict with the four     *)
(* keys as given, "array": a parsed value that is not a dict,              *)
(* "unparseable": it raises).                                              *)
(***************************************************************************)
MergeResult(status, message) == [status |-> status, message |-> message]

\* Python's None where a MergeResult | None is returned.
None == [status |-> "None", message |-> ""]

\* A call that returns a MergeResult raises instead.
Raises(e) == [exc |-> e, value |-> None]

MergeStatus ==
    {"SUCCESS", "ALREADY_MERGED", "CONFLICT", "CHECKS_PENDING", "NOT_FOUND", "ERROR"}

closed == <<"c", "l", "o", "s", "e", "d">>

\* _get_pr_state with "state == closed" tested before "merged".
get_pr_state_closed_first(response) ==
    IF response.status_code = 404
    THEN Return(MergeResult("NOT_FOUND", "not found in owner/repo"))
    ELSE IF response.status_code # 200
    THEN Return(MergeResult("ERROR", "Failed to fetch: HTTP code"))
    ELSE IF response.json = "unparseable" THEN Raises("JSONDecodeError")
    ELSE IF response.json # "object" THEN Raises("AttributeError")
    ELSE IF response.state = JStr(closed)
    THEN Return(MergeResult("ERROR", "closed without being merged"))
    ELSE IF truthy(response.merged)
    THEN Return(MergeResult("ALREADY_MERGED", "already merged"))
    ELSE IF response.mergeable = JFalse
    THEN Return(MergeResult("CONFLICT", "merge conflicts"))
    ELSE Return(None)

\* _get_pr_state, from the response of client.get on.
get_pr_state(response) ==
    IF response.status_code = 404
    THEN Return(MergeResult("NOT_FOUND", "not found in owner/repo"))
    ELSE IF response.status_code # 200
    THEN Return(MergeResult("ERROR", "Failed to fetch: HTTP code"))
    \* data = response.json()
    ELSE IF response.json = "unparseable" THEN Raises("JSONDecodeError")
    \* data.get on a value that is not a dict
    ELSE IF response.json # "object" THEN Raises("AttributeError")
    ELSE IF truthy(response.merged)
    THEN Return(MergeResult("ALREADY_MERGED", "already merged"))
    ELSE IF response.state = JStr(closed)
    THEN Return(MergeResult("ERROR", "closed without being merged"))
    ELSE IF response.mergeable = JFalse
    THEN Return(MergeResult("CONFLICT", "merge conflicts"))
    ELSE Return(None)

not_mergeable == <<"n", "o", "t", " ", "m", "e", "r", "g", "e", "a", "b", "l", "e">>

conflict == <<"c", "o", "n", "f", "l", "i", "c", "t">>

\* _parse_merge_response
parse_merge_response(response) ==
    IF response.status_code = 200
    THEN Return(MergeResult("SUCCESS", "merged successfully"))
    \* body = response.json() inside try/except: {} when it raises;
    \* body.get on a parsed value that is not a dict raises outside it
    ELSE IF response.json = "array" THEN Raises("AttributeError")
    ELSE LET message == IF response.json = "object" THEN response.message ELSE JAbsent
             \* str(body.get("message", "")).lower()
             github_message ==
                 lower(IF message = JAbsent THEN <<>> ELSE py_str(message))
         IN  IF response.status_code = 405
             THEN IF contains(github_message, not_mergeable)
                     \/ contains(github_message, conflict)
                  THEN Return(MergeResult("CONFLICT", "merge conflicts"))
                  ELSE Return(MergeResult("CHECKS_PENDING", "status checks have not passed"))
             ELSE IF response.status_code = 409
             THEN Return(MergeResult("CONFLICT", "merge conflicts"))
             ELSE IF response.status_code = 404
             THEN Return(MergeResult("NOT_FOUND", "not found"))
             ELSE Return(MergeResult("ERROR",
                      IF truthy(message) THEN "Failed to merge: message"
                      ELSE "Failed to merge: HTTP code"))

(***************************************************************************)
(* The responses the platform, or anything answering in its place, gives.  *)
(***************************************************************************)
GetStatusCodes == {200, 404, 403, 500}

PutStatusCodes == {200, 405, 409, 404, 403, 422, 500}

Messages ==
    {JAbsent, JNull, JStr(<<>>),
     JStr(<<"P", "u", "l", "l", " ", "R", "e", "q", "u", "e", "s", "t", " ", "i", "s", " ">>
          \o not_mergeable),
     JStr(<<"M", "e", "r", "g", "e", " ", "C", "O", "N", "F", "L", "I", "C", "T">>),
     JStr(<<"R", "e", "q", "u", "i", "r", "e", "d", " ", "s", "t", "a", "t", "u", "s", " ",
            "c", "h", "e", "c", "k", "s", " ", "f", "a", "i", "l", "e", "d">>)}

\* Bodies that are not a JSON object: unparseable text, or a parsed value
\* of another type.
OtherBodies(codes) ==
    {[status_code |-> c, json |-> j, merged |-> JAbsent, state |-> JAbsent,
      mergeable |-> JAbsent, message |-> JAbsent] :
        c \in codes, j \in {"unparseable", "array"}}

GetResponses ==
    [status_code : GetStatusCodes, json : {"object"},
     merged : {JAbsent, JNull, JFalse, JTrue, JNum(<<"1">>), JStr(<<"n", "o">>)},
     state : {JAbsent, JStr(<<"o", "p", "e", "n">>), JStr(closed)},
     mergeable : {JAbsent, JNull, JFalse, JTrue, JNum(<<"0">>)},
     message : {JAbsent}]
    \cup OtherBodies(GetStatusCodes)

PutResponses ==
    [status_code : PutStatusCodes, json : {"object"},
     merged : {JAbsent}, state : {JAbsent}, mergeable : {JAbsent},
     message : Messages]
    \cup OtherBodies(PutStatusCodes)

(***************************************************************************)
(* SpecClassify: the two classifications applied to every response.        *)
(***************************************************************************)
InitClassify ==
    /\ runs = NoRuns
    /\ last = NoLast
    /\ \/ call \in [fn : {"_get_pr_state"}, response : GetResponses]
       \/ call \in [fn : {"_parse_merge_response"}, response : PutResponses]
    /\ ret = [done |-> FALSE, out |-> Return(None)]
    /\ pull = NoPull

CallGetPrState ==
    /\ call.fn = "_get_pr_state"
    /\ ~ret.done
    /\ ret' = [done |-> TRUE, out |-> get_pr_state(call.response)]
    /\ UNCHANGED <<runs, last, call, pull>>

CallParseMergeResponse ==
    /\ call.fn = "_parse_merge_response"
    /\ ~ret.done
    /\ ret' = [done |-> TRUE, out |-> parse_merge_response(call.response)]
    /\ UNCHANGED <<runs, last, call, pull>>

NextClassify == CallGetPrState \/ CallParseMergeResponse

SpecClassify == InitClassify /\ [][NextClassify]_vars

\* The first matching row of the step 1 table; "None" is "proceed".
Step1Row(r) ==
    IF r.status_code = 404 THEN "NOT_FOUND"
    ELSE IF r.status_code # 200 THEN "ERROR"
    ELSE IF r.json = "object" /\ r.merged = JTrue THEN "ALREADY_MERGED"
    ELSE IF r.json = "object" /\ r.state = JStr(closed) THEN "ERROR"
    ELSE IF r.json = "object" /\ r.mergeable = JFalse THEN "CONFLICT"
    ELSE "None"

\* C6: for every GET response _get_pr_state returns the first matching row
\* of: 404 -> NOT_FOUND; other non-200 -> ERROR; merged == true ->
\* ALREADY_MERGED; state == "closed" -> ERROR; mergeable == false ->
\* CONFLICT; otherwise proceed.
C6_Step1Classification ==
    (call.fn = "_get_pr_state" /\ ret.done) =>
        (ret.out.exc = "" /\ ret.out.value.status = Step1Row(call.response))

\* The message of the response mentions a conflict, in any letter case.
MentionsConflict(r) ==
    /\ r.json = "object"
    /\ r.message.t = "string"
    /\ \E i \in 1..Len(r.message.s), j \in 0..Len(r.message.s) :
          lower(SubSeq(r.message.s, i, j)) \in {not_mergeable, conflict}

\* The row of the step 2 table.
Step2Row(r) ==
    CASE r.status_code = 200 -> "SUCCESS"
      [] r.status_code = 405 ->
            IF MentionsConflict(r) THEN "CONFLICT" ELSE "CHECKS_PENDING"
      [] r.status_code = 409 -> "CONFLICT"
      [] r.status_code = 404 -> "NOT_FOUND"
      [] OTHER -> "ERROR"

\* C7: for every PUT response _parse_merge_response returns SUCCESS for
\* 200; for 405 CONFLICT when the message mentions "not mergeable" or
\* "conflict" and CHECKS_PENDING otherwise; CONFLICT for 409; NOT_FOUND for
\* 404; ERROR for every other status: one of the six outcomes always.
C7_Step2Classification ==
    (call.fn = "_parse_merge_response" /\ ret.done) =>
        /\ ret.out.exc = ""
        /\ ret.out.value.status \in MergeStatus
        /\ ret.out.value.status = Step2Row(call.response)

(***************************************************************************)
(* src/slack_handler.py: extract_pr and has_merge_intent                   *)
(***************************************************************************)
Letters == Range(UpperLetters) \cup Range(LowerLetters)

\* [A-Za-z0-9_.\-]
NameChars == Letters \cup Digits \cup {"_", ".", "-"}

\* \w of a str pattern: letters (those outside ASCII too), digits and "_".
WordChars == Letters \cup Digits \cup {"_"} \cup NonAscii

github_prefix ==
    <<"h", "t", "t", "p", "s", ":", "/", "/",
      "g", "i", "t", "h", "u", "b", ".", "c", "o", "m", "/">>

pull_infix == <<"/", "p", "u", "l", "l", "/">>

\* text[i..] starts with lit
StartsAt(text, i, lit) ==
    /\ i + Len(lit) - 1 <= Len(text)
    /\ SubSeq(text, i, i + Len(lit) - 1) = lit

\* The end of the longest run of characters of class starting at i
\* (i - 1 when text[i] is not in class): a greedy "+".
RECURSIVE RunEnd(_, _, _)
RunEnd(text, i, class) ==
    IF i <= Len(text) /\ text[i] \in class THEN RunEnd(text, i + 1, class) ELSE i - 1

\* _PR_URL_PATTERN matched at position i: the groups and the end, or ok = FALSE.
\* Neither name class holds "/", so each greedy run ends where the class
\* ends and nothing is given back.
PrUrlMatchAt(text, i) ==
    LET o1 == i + Len(github_prefix)
        o2 == RunEnd(text, o1, NameChars)
        r1 == o2 + 2
        r2 == RunEnd(text, r1, NameChars)
        n1 == r2 + 1 + Len(pull_infix)
        n2 == RunEnd(text, n1, Digits)
    IN  IF /\ StartsAt(text, i, github_prefix)
           /\ o2 >= o1
           /\ StartsAt(text, o2 + 1, <<"/">>)
           /\ r2 >= r1
           /\ StartsAt(text, r2 + 1, pull_infix)
           /\ n2 >= n1
        THEN [ok |-> TRUE, owner |-> SubSeq(text, o1, o2), repo |-> SubSeq(text, r1, r2),
              number |-> SubSeq(text, n1, n2), url |-> SubSeq(text, i, n2)]
        ELSE [ok |-> FALSE, owner |-> <<>>, repo |-> <<>>, number |-> <<>>, url |-> <<>>]

NoPR == [found |-> FALSE, owner |-> <<>>, repo |-> <<>>, pull_number |-> 0, url |-> <<>>]

\* A ParsedPR is made of every text.
extract_pr_of_any_text(text) ==
    [found |-> TRUE, owner |-> <<"o">>, repo |-> <<"r">>, pull_number |-> 7, url |-> text]

\* The last match in the text is taken.
extract_pr_last_match(text) ==
    IF \E i \in 1..Len(text) : PrUrlMatchAt(text, i).ok
    THEN LET i == CHOOSE j \in 1..Len(text) :
                      /\ PrUrlMatchAt(text, j).ok
                      /\ \A k \in (j + 1)..Len(text) : ~PrUrlMatchAt(text, k).ok
             m == PrUrlMatchAt(text, i)
         IN  [found |-> TRUE, owner |-> m.owner, repo |-> m.repo,
              pull_number |-> DigitsVal(m.number), url |-> m.url]
    ELSE NoPR

\* extract_pr: the leftmost match of _PR_URL_PATTERN.search, or None (NoPR).
extract_pr(text) ==
    IF \E i \in 1..Len(text) : PrUrlMatchAt(text, i).ok
    THEN LET i == CHOOSE j \in 1..Len(text) :
                      /\ PrUrlMatchAt(text, j).ok
                      /\ \A k \in 1..(j - 1) : ~PrUrlMatchAt(text, k).ok
             m == PrUrlMatchAt(text, i)
         IN  [found |-> TRUE, owner |-> m.owner, repo |-> m.repo,
              pull_number |-> DigitsVal(m.number), url |-> m.url]
    ELSE NoPR

\* \b at the gap before position i (between text[i-1] and text[i]).
WordBoundary(text, i) ==
    (i > 1 /\ i - 1 <= Len(text) /\ text[i - 1] \in WordChars)
        # (i >= 1 /\ i <= Len(text) /\ text[i] \in WordChars)

\* A literal matched without regard to letter case.
StartsAtNoCase(text, i, lit) ==
    /\ i + Len(lit) - 1 <= Len(text)
    /\ lower(SubSeq(text, i, i + Len(lit) - 1)) = lit

\* first \s+ second matched at position i
TwoWordsAt(text, i, first, second) ==
    LET w1 == i + Len(first)
        w2 == RunEnd(text, w1, Whitespace)
    IN  /\ StartsAtNoCase(text, i, first)
        /\ \E e \in w1..w2 : StartsAtNoCase(text, e + 1, second)

\* has_merge_intent: _MERGE_KEYWORDS = \bmerge\b|can\s+u|please\s+merge,
\* re.IGNORECASE, searched anywhere in the text.
has_merge_intent(text) ==
    \E i \in 1..Len(text) :
        \/ /\ StartsAtNoCase(text, i, <<"m", "e", "r", "g", "e">>)
           /\ WordBoundary(text, i)
           /\ WordBoundary(text, i + 5)
        \/ TwoWordsAt(text, i, <<"c", "a", "n">>, <<"u">>)
        \/ TwoWordsAt(text, i, <<"p", "l", "e", "a", "s", "e">>, <<"m", "e", "r", "g", "e">>)

(***************************************************************************)
(* SpecParse: extract_pr and has_merge_intent applied to message texts.    *)
(***************************************************************************)
MaxUrls == 2

\* Things that look like a pull-request URL, well formed or not.
UrlLikes ==
    {scheme \o owner \o <<"/">> \o repo \o infix \o number :
        scheme \in {github_prefix,
                    <<"h", "t", "t", "p", ":", "/", "/",
                      "g", "i", "t", "h", "u", "b", ".", "c", "o", "m", "/">>},
        owner \in {<<"o">>, <<"a", ".", "-", "_", "1">>, <<>>},
        repo \in {<<"r">>, <<>>},
        infix \in {pull_infix, <<"/", "p", "u", "l", "l", "s", "/">>},
        number \in {<<"7">>, <<"0">>, <<>>, <<"x">>, <<"0", "0", "7">>}}

\* Texts with up to n URL-like parts, separated by a blank.
RECURSIVE UrlTexts(_)
UrlTexts(n) ==
    IF n = 0 THEN {<<>>}
    ELSE IF n = 1 THEN UrlLikes
    ELSE UrlTexts(n - 1) \cup
         {t \o <<" ">> \o github_prefix \o <<"p", "/", "q">> \o pull_infix \o <<"9">> :
             t \in UrlTexts(n - 1)}

\* Message texts for extract_pr: the URL-like parts inside other text.
PrTexts ==
    {pre \o t \o post :
        pre \in {<<>>, <<"x">>},
        t \in UrlTexts(MaxUrls),
        post \in {<<>>, <<"8">>}}

\* Message texts for has_merge_intent: the keywords in several letter
\* cases and spacings, alone and with other characters on either side.
IntentTexts ==
    {pre \o core \o post :
        pre \in {<<>>, <<" ">>, <<"s">>, <<"_">>, <<"1">>, <<"U+E9">>, <<"-">>,
                 <<"s", "u", "b">>},
        core \in {<<"m", "e", "r", "g", "e">>, <<"M", "e", "r", "g", "e">>,
                  <<"M", "E", "R", "G", "E">>, <<"m", "e", "r", "g">>,
                  <<"c", "a", "n", " ", "u">>, <<"C", "a", "n", " ", " ", "U">>,
                  <<"c", "a", "n", "\t", "u">>, <<"c", "a", "n", "u">>,
                  <<"p", "l", "e", "a", "s", "e", " ", "m", "e", "r", "g", "e">>,
                  <<"P", "L", "E", "A", "S", "E", "\n", "M", "E", "R", "G", "E">>,
                  <<"p", "l", "e", "a", "s", "e", "m", "e", "r", "g", "e">>,
                  <<"l", "g", "t", "m">>},
        post \in {<<>>, <<" ">>, <<"d">>, <<"s">>, <<"_">>, <<"!">>, <<"U+E9">>,
                  <<"r", " ", "i", "t">>}}

InitParse ==
    /\ runs = NoRuns
    /\ last = NoLast
    /\ \/ call \in [fn : {"extract_pr"}, text : PrTexts]
       \/ call \in [fn : {"has_merge_intent"}, text : IntentTexts]
    /\ ret = NoRet
    /\ pull = NoPull

CallExtractPr ==
    /\ call.fn = "extract_pr"
    /\ ~ret.done
    /\ ret' = [done |-> TRUE, out |-> Return(extract_pr(call.text))]
    /\ UNCHANGED <<runs, last, call, pull>>

CallHasMergeIntent ==
    /\ call.fn = "has_merge_intent"
    /\ ~ret.done
    /\ ret' = [done |-> TRUE, out |-> Return(has_merge_intent(call.text))]
    /\ UNCHANGED <<runs, last, call, pull>>

NextParse == CallExtractPr \/ CallHasMergeIntent

SpecParse == InitParse /\ [][NextParse]_vars

(***************************************************************************)
(* Spec: the service.  slack_events answers webhook requests and queues    *)
(* handle_message_event as a background task; a task runs from await to    *)
(* await, interleaved with the other tasks and with further requests.      *)
(***************************************************************************)
MaxRuns == 1

\* get_settings(): the process-wide configuration.
Settings ==
    [slack_signing_secret |-> <<"k">>,
     authorized_slack_user_ids |-> <<"a", ",", " ", "c">>]

bot_message == <<"b", "o", "t", "_", "m", "e", "s", "s", "a", "g", "e">>

url_verification ==
    <<"u", "r", "l", "_", "v", "e", "r", "i", "f", "i", "c", "a", "t", "i", "o", "n">>

event_callback ==
    <<"e", "v", "e", "n", "t", "_", "c", "a", "l", "l", "b", "a", "c", "k">>

message == <<"m", "e", "s", "s", "a", "g", "e">>

pr_url == github_prefix \o <<"o", "/", "r">> \o pull_infix \o <<"7">>

\* Message texts: with and without a pull-request URL, with and without
\* merge intent.
Texts ==
    {<<"m", "e", "r", "g", "e", " ">> \o pr_url,
     pr_url \o <<" ", "l", "g", "t", "m">>,
     <<"p", "l", "e", "a", "s", "e", " ", "m", "e", "r", "g", "e">>,
     <<"l", "g", "t", "m">>}

\* The bot-origin markers of an event: none, a bot_id, the bot subtype.
BotMarkers ==
    {[bot_id |-> JAbsent, subtype |-> JAbsent],
     [bot_id |-> JStr(<<"B">>), subtype |-> JAbsent],
     [bot_id |-> JAbsent, subtype |-> JStr(bot_message)]}

\* The event objects of message callbacks: replies in thread T by user a
\* (on the allow-list) and top-level messages M by user b (not on it),
\* with and without a bot marker.
Events ==
    {[bot_id |-> m.bot_id, subtype |-> m.subtype, text |-> JStr(t),
      channel |-> JStr(<<"C">>), thread_ts |-> s.thread_ts, ts |-> JStr(<<"M">>),
      user |-> s.user] :
        m \in BotMarkers,
        t \in Texts,
        s \in {[user |-> JStr(<<"a">>), thread_ts |-> JStr(<<"T">>)],
               [user |-> JStr(<<"b">>), thread_ts |-> JAbsent]}}

NoEvent ==
    [bot_id |-> JAbsent, subtype |-> JAbsent, text |-> JAbsent, channel |-> JAbsent,
     thread_ts |-> JAbsent, ts |-> JAbsent, user |-> JAbsent]

\* A run slot before any task is queued in it.
\*   pc       : free, queued, returned (dropped without a message),
\*              deny_wait / post_wait (chat_postMessage in flight),
\*              get_wait / put_wait (client.get / client.put in flight),
\*              done, raised
\*   gets, puts, posts : calls issued so far
\*   posted, thread_ts : the text and the thread of the chat message
\*   pr_state : what _get_pr_state gave (none yet, proceed, a status, raised)
\*   merge    : merge_pull_request is not called, running, returned, raised
\*   result   : the MergeResult status handed back to handle_message_event
\*   exc      : the exception that ended the task
\*   verified : what verify_slack_signature returned for the request that
\*              queued the task
FreeRun ==
    [pc |-> "free", event |-> NoEvent, gets |-> 0, puts |-> 0, posts |-> 0,
     posted |-> "", thread_ts |-> <<>>, pr_state |-> "none", merge |-> "not called",
     result |-> "none", exc |-> "", verified |-> "none"]

\* The task in the slot has ended, or there never was one.
Ended(run) == run.pc \in {"free", "returned", "done", "raised"}

\* str(v or "")
str_or_empty(v) == IF truthy(v) THEN py_str(v) ELSE <<>>

\* slack_client.chat_postMessage(channel, thread_ts, text) is issued.
chat_postMessage(run, text, pc) ==
    [run EXCEPT !.posts = @ + 1,
                !.posted = text,
                !.thread_ts = IF truthy(run.event.thread_ts)
                              THEN py_str(run.event.thread_ts)
                              ELSE str_or_empty(run.event.ts),
                !.pc = pc]

\* handle_message_event from the result of merge_pull_request on: the
\* outcome is posted with its icon.
notify(run, result) ==
    chat_postMessage([run EXCEPT !.merge = "returned", !.result = result.status],
                     IF result.status = "SUCCESS" THEN "ok: message" ELSE "failed: message",
                     "post_wait")

\* An exception leaves merge_pull_request and handle_message_event, which
\* catch nothing: the task ends.
propagate(run, exc) ==
    [run EXCEPT !.pc = "raised", !.exc = exc,
                !.merge = IF run.merge = "running" THEN "raised" ELSE @]

\* The call that failed is issued again.
retry_after_transport_error(run, exc) ==
    IF run.pc = "get_wait" THEN [run EXCEPT !.gets = @ + 1]
    ELSE [run EXCEPT !.puts = @ + 1]

\* client.get or client.put fails (httpx.TimeoutException after the 15 s
\* timeout, httpx.ConnectError): nothing in merge_pull_request catches it.
after_transport_error(run, exc) == propagate(run, exc)

\* The merge call is issued whatever _get_pr_state returned.
proceeds_always(pr_state) == TRUE

\* "if pr_state is not None: return pr_state", negated
proceeds(pr_state) == pr_state = None

\* merge_pull_request from the return of _get_pr_state on: its result is
\* returned, or client.put is issued.
merge_after_get(run, pr_state) ==
    IF pr_state.exc # ""
    THEN propagate([run EXCEPT !.pr_state = "raised"], pr_state.exc)
    ELSE LET seen == [run EXCEPT !.pr_state =
                         IF pr_state.value = None THEN "proceed"
                         ELSE pr_state.value.status]
         IN  IF proceeds(pr_state.value)
             THEN [seen EXCEPT !.puts = @ + 1, !.pc = "put_wait"]
             ELSE notify(seen, pr_state.value)

\* merge_pull_request from the return of _parse_merge_response on.
merge_after_put(run, parsed) ==
    IF parsed.exc # "" THEN propagate(run, parsed.exc)
    ELSE notify(run, parsed.value)

\* Only the subtype is looked at.
from_bot_subtype_only(event) == event.subtype = JStr(bot_message)

\* 'if event.get("bot_id") or event.get("subtype") == "bot_message"'
from_bot(event) == truthy(event.bot_id) \/ event.subtype = JStr(bot_message)

\* handle_message_event up to its first await.
handle_message_event(run) ==
    LET event == run.event
        text == str_or_empty(event.text)
        user_id == str_or_empty(event.user)
        pr == extract_pr(text)
    IN  IF from_bot(event)
        THEN [run EXCEPT !.pc = "returned"]
        ELSE IF ~pr.found THEN [run EXCEPT !.pc = "returned"]
        ELSE IF ~has_merge_intent(text) THEN [run EXCEPT !.pc = "returned"]
        ELSE IF ~is_authorized(user_id, Settings.authorized_slack_user_ids)
        THEN chat_postMessage(run, "denial", "deny_wait")
        ELSE [run EXCEPT !.merge = "running", !.gets = @ + 1, !.pc = "get_wait"]

\* What _get_pr_state makes of the responses to client.get, and
\* _parse_merge_response of those to client.put.
GetOutcomes == {get_pr_state(response) : response \in GetResponses}

PutOutcomes == {parse_merge_response(response) : response \in PutResponses}

TransportErrors == {"TimeoutException", "ConnectError"}

(***************************************************************************)
(* src/main.py: slack_events                                               *)
(*                                                                         *)
(* A request is [json, type, challenge, event_is_dict, event_type, body,   *)
(* timestamp, signature, now2]: json says what request.json() does with    *)
(* the body, the next four are the parsed payload, the rest the raw body,  *)
(* the two headers and the clock.                                          *)
(***************************************************************************)
Response(status_code, verify, add_task, challenge) ==
    [status_code |-> status_code, verify |-> verify, add_task |-> add_task,
     challenge |-> challenge]

\* The result of verify_slack_signature is computed and not acted on.
signature_rejected_never(v) == FALSE

\* "if not verify_slack_signature(...)"
signature_rejected(v) == ~v.value

\* Every payload that is not an event callback is taken for the challenge.
is_url_verification_or_other(request) == request.type # JStr(event_callback)

\* 'if payload.get("type") == "url_verification"'
is_url_verification(request) == request.type = JStr(url_verification)

\* slack_events from the parsed payload on.
handle_payload(request) ==
    \* payload.get on a parsed value that is not a dict: AttributeError
    IF request.json # "object"
    THEN Response(500, "not called", FALSE, JAbsent)
    ELSE IF is_url_verification(request)
    \* {"challenge": payload.get("challenge")}: null when there is none
    THEN Response(200, "not called", FALSE,
                  IF request.challenge = JAbsent THEN JNull ELSE request.challenge)
    ELSE LET v == verify_slack_signature(request.body, request.timestamp,
                      request.signature, Settings.slack_signing_secret, request.now2)
         IN  IF v.exc # "" THEN Response(500, "raised", FALSE, JAbsent)
             ELSE IF signature_rejected(v)
             THEN Response(401, IF v.value THEN "True" ELSE "False", FALSE, JAbsent)
             ELSE Response(200, IF v.value THEN "True" ELSE "False",
                           /\ request.type = JStr(event_callback)
                           /\ request.event_is_dict
                           /\ request.event_type = JStr(message),
                           JAbsent)

\* The body that request.json() rejects is handled as the payload {}.
invalid_json_as_empty_payload(request) ==
    handle_payload([request EXCEPT !.json = "object", !.type = JAbsent])

\* "except Exception: raise HTTPException(status_code=400, ...)"
invalid_json(request) == Response(400, "not called", FALSE, JAbsent)

slack_events(request) ==
    IF request.json = "malformed" THEN invalid_json(request)
    ELSE handle_payload(request)

\* The payloads, up to the event object.
Envelopes ==
    [json : {"malformed", "array"}, type : {JAbsent}, challenge : {JAbsent},
     event_is_dict : {FALSE}, event_type : {JAbsent}]
    \cup [json : {"object"}, type : {JStr(url_verification)},
          challenge : {JAbsent, JStr(<<"x">>)},
          event_is_dict : {FALSE}, event_type : {JAbsent}]
    \cup [json : {"object"},
          type : {JAbsent, JStr(event_callback), JStr(<<"o">>)},
          challenge : {JAbsent},
          event_is_dict : {FALSE}, event_type : {JAbsent}]
    \cup [json : {"object"},
          type : {JAbsent, JStr(event_callback), JStr(<<"o">>)},
          challenge : {JAbsent},
          event_is_dict : {TRUE}, event_type : {JStr(message), JStr(<<"o">>)}]

\* The raw body, the two headers and the clock of a request: signed with
\* the right secret or another one or not at all, fresh or stale.
Deliveries ==
    UNION {
        [body : {b}, timestamp : {t},
         signature : {Sign(Settings.slack_signing_secret, t, b), Sign(<<"j">>, t, b),
                      <<"v", "0", "=", "U+E9">>},
         now2 : {2 * NowBase}]
        : b \in {<<"a">>, <<"xFF">>},
          t \in {str(NowBase), str(NowBase + ReplayWindow + 1), <<>>}}

Request(e, d) ==
    [json |-> e.json, type |-> e.type, challenge |-> e.challenge,
     event_is_dict |-> e.event_is_dict, event_type |-> e.event_type,
     body |-> d.body, timestamp |-> d.timestamp, signature |-> d.signature,
     now2 |-> d.now2]

\* The signature header is the one the sender computes from the body, the
\* timestamp header and the service's signing secret, and the timestamp is
\* within the replay window.
CorrectlySigned(d) ==
    /\ d.signature = Sign(Settings.slack_signing_secret, d.timestamp, d.body)
    /\ int(d.timestamp).exc = ""
    /\ abs(d.now2 - 2 * int(d.timestamp).value) <= 2 * ReplayWindow

\* The payload is an event callback whose event is an object of type
\* "message".
MessageCallback(e) ==
    /\ e.json = "object"
    /\ e.type = JStr(event_callback)
    /\ e.event_is_dict
    /\ e.event_type = JStr(message)

\* What slack_events answers to the requests; kept beside the answer are
\* the payload's json, type and challenge, whether it is a message
\* callback, and whether the request was correctly signed.
Answers ==
    {[json |-> e.json, type |-> e.type, challenge |-> e.challenge,
      message_callback |-> MessageCallback(e),
      signed |-> CorrectlySigned(d), response |-> slack_events(Request(e, d))] :
        e \in Envelopes, d \in Deliveries}

Init ==
    /\ runs = [r \in 1..MaxRuns |-> FreeRun]
    /\ last = [json |-> "none", type |-> JAbsent, challenge |-> JAbsent,
               message_callback |-> FALSE, signed |-> FALSE,
               response |-> Response(0, "not called", FALSE, JAbsent)]
    /\ call = NoCall
    /\ ret = NoRet
    /\ pull = NoPull

\* A webhook request is answered; background_tasks.add_task queues the
\* event of a forwarded message callback in the first slot whose task has
\* ended.
SlackEvents ==
    \E answer \in Answers :
        /\ last' = answer
        /\ IF answer.response.add_task
           THEN \E r \in 1..MaxRuns, event \in Events :
                   /\ Ended(runs[r])
                   /\ \A q \in 1..(r - 1) : ~Ended(runs[q])
                   /\ runs' = [runs EXCEPT ![r] =
                                  [FreeRun EXCEPT !.pc = "queued", !.event = event,
                                                  !.verified = answer.response.verify]]
           ELSE UNCHANGED runs
        /\ UNCHANGED <<call, ret, pull>>

\* The background task starts and runs to its first await.
HandleMessageEvent(r) ==
    /\ runs[r].pc = "queued"
    /\ runs' = [runs EXCEPT ![r] = handle_message_event(runs[r])]
    /\ UNCHANGED <<last, call, ret, pull>>

\* client.get returns a response, which _get_pr_state classifies.
GetReturns(r) ==
    /\ runs[r].pc = "get_wait"
    /\ \E pr_state \in GetOutcomes :
          runs' = [runs EXCEPT ![r] = merge_after_get(runs[r], pr_state)]
    /\ UNCHANGED <<last, call, ret, pull>>

\* client.put returns a response, which _parse_merge_response classifies.
PutReturns(r) ==
    /\ runs[r].pc = "put_wait"
    /\ \E parsed \in PutOutcomes :
          runs' = [runs EXCEPT ![r] = merge_after_put(runs[r], parsed)]
    /\ UNCHANGED <<last, call, ret, pull>>

\* client.get or client.put fails: the 15 s timeout, no connection.
TransportFails(r) ==
    /\ runs[r].pc \in {"get_wait", "put_wait"}
    /\ \E exc \in TransportErrors :
          runs' = [runs EXCEPT ![r] = after_transport_error(runs[r], exc)]
    /\ UNCHANGED <<last, call, ret, pull>>

\* chat_postMessage returns and the task ends.
PostReturns(r) ==
    /\ runs[r].pc \in {"deny_wait", "post_wait"}
    /\ runs' = [runs EXCEPT ![r].pc = "done"]
    /\ UNCHANGED <<last, call, ret, pull>>

\* chat_postMessage fails (SlackApiError) and the task ends.
PostFails(r) ==
    /\ runs[r].pc \in {"deny_wait", "post_wait"}
    /\ runs' = [runs EXCEPT ![r] = propagate(runs[r], "SlackApiError")]
    /\ UNCHANGED <<last, call, ret, pull>>

Next ==
    \/ SlackEvents
    \/ \E r \in 1..MaxRuns :
          \/ HandleMessageEvent(r)
          \/ GetReturns(r)
          \/ PutReturns(r)
          \/ TransportFails(r)
          \/ PostReturns(r)
          \/ PostFails(r)

Spec == Init /\ [][Next]_vars

(***************************************************************************)
(* Properties of the service                                               *)
(***************************************************************************)
\* What can go wrong with a call to the platform: no response in time, no
\* connection, a body that is not JSON, a JSON body that is not an object.
CallFailures == TransportErrors \cup {"JSONDecodeError", "AttributeError"}

\* C1: merge_pull_request never raises to its caller: whatever the GET and
\* the PUT do, it returns a MergeResult, and after a transport failure, a
\* timeout or a malformed response the status of that result is ERROR.
C1_MergeNeverRaises ==
    \A r \in 1..MaxRuns :
        /\ runs[r].merge # "raised"
        /\ runs[r].merge = "returned" => runs[r].result \in MergeStatus
        /\ runs[r].exc \in CallFailures => runs[r].result = "ERROR"

\* The event is not bot-originated, holds a pull-request URL, has merge
\* intent, and its sender is on the allow-list.
Qualifies(event) ==
    /\ event.bot_id = JAbsent
    /\ event.subtype # JStr(bot_message)
    /\ event.text.t = "string"
    /\ \E i \in 1..Len(event.text.s) : PrUrlMatchAt(event.text.s, i).ok
    /\ has_merge_intent(event.text.s)
    /\ event.user.t = "string"
    /\ event.user.s \in authorized_user_ids(Settings.authorized_slack_user_ids)

\* The thread the event came from.
OriginThread(event) ==
    IF event.thread_ts.t = "string" THEN event.thread_ts.s ELSE event.ts.s

\* C2: a message event that is not from a bot, holds a pull-request URL,
\* has merge intent and comes from an authorized sender gets exactly one
\* chat message in its thread: never more than one, and one once the task
\* has ended, whatever the platform answered and however its calls failed.
C2_ExactlyOneNotification ==
    \A r \in 1..MaxRuns :
        Qualifies(runs[r].event) =>
            /\ runs[r].posts <= 1
            /\ runs[r].pc \in {"returned", "done", "raised"} =>
                  /\ runs[r].posts = 1
                  /\ runs[r].thread_ts = OriginThread(runs[r].event)

\* C3: within one merge_pull_request the PUT is issued only after the GET
\* has returned and was classified "proceed"; when step 1 gives an outcome
\* no PUT is ever issued and that outcome is the result.
C3_PutOnlyAfterProceed ==
    \A r \in 1..MaxRuns :
        /\ runs[r].puts > 0 => (runs[r].pr_state = "proceed" /\ runs[r].gets = 1)
        /\ runs[r].pc = "get_wait" => runs[r].puts = 0
        /\ runs[r].pr_state \in MergeStatus =>
              /\ runs[r].puts = 0
              /\ runs[r].merge = "returned"
              /\ runs[r].result = runs[r].pr_state

\* Step 1 found the pull request in conflict: the task ended with that
\* outcome posted and no PUT.
C3_Witness ==
    \E r \in 1..MaxRuns :
        /\ runs[r].pc = "done"
        /\ runs[r].pr_state = "CONFLICT"
        /\ runs[r].result = "CONFLICT"
        /\ runs[r].gets = 1
        /\ runs[r].puts = 0
        /\ runs[r].posts = 1

\* C4: one attempt per trigger: a run sends at most one GET and at most one
\* PUT, and a timeout, a connection failure or an error status ends the
\* call without a repeat.
C4_SingleAttempt ==
    \A r \in 1..MaxRuns :
        /\ runs[r].gets <= 1
        /\ runs[r].puts <= 1
        /\ runs[r].pc = "get_wait" => (runs[r].gets = 1 /\ runs[r].puts = 0)
        /\ runs[r].pc = "put_wait" => (runs[r].gets = 1 /\ runs[r].puts = 1)
        /\ runs[r].exc \in TransportErrors => runs[r].pc = "raised"

\* The PUT timed out: the run ended after one GET and one PUT.
C4_Witness ==
    \E r \in 1..MaxRuns :
        /\ runs[r].pc = "raised"
        /\ runs[r].exc = "TimeoutException"
        /\ runs[r].gets = 1
        /\ runs[r].puts = 1

BotOrigin(event) == event.bot_id # JAbsent \/ event.subtype = JStr(bot_message)

\* The text of the event holds a pull-request URL and has merge intent.
AsksForMerge(event) ==
    /\ event.text.t = "string"
    /\ \E i \in 1..Len(event.text.s) : PrUrlMatchAt(event.text.s, i).ok
    /\ has_merge_intent(event.text.s)

\* The sender of the event is on the allow-list.
OnAllowList(event) ==
    /\ event.user.t = "string"
    /\ event.user.s \in authorized_user_ids(Settings.authorized_slack_user_ids)

\* C11: a non-bot message with a pull-request URL and merge intent from a
\* sender who is not authorized gets exactly one chat message, the denial,
\* in its thread, and neither a GET nor a PUT is issued for it.
C11_DenialAndNoCall ==
    \A r \in 1..MaxRuns :
        (/\ ~BotOrigin(runs[r].event)
         /\ AsksForMerge(runs[r].event)
         /\ ~OnAllowList(runs[r].event)) =>
            /\ runs[r].gets = 0
            /\ runs[r].puts = 0
            /\ runs[r].merge = "not called"
            /\ runs[r].posts <= 1
            /\ runs[r].pc # "queued" =>
                  /\ runs[r].posts = 1
                  /\ runs[r].posted = "denial"
                  /\ runs[r].thread_ts = OriginThread(runs[r].event)

\* The task of an unauthorized request has ended after its denial.
C11_Witness ==
    \E r \in 1..MaxRuns :
        /\ ~BotOrigin(runs[r].event)
        /\ AsksForMerge(runs[r].event)
        /\ ~OnAllowList(runs[r].event)
        /\ runs[r].pc = "done"
        /\ runs[r].posted = "denial"
        /\ runs[r].gets = 0

\* C12: an event whose text lacks the pull-request URL or the merge intent
\* is dropped: no GET, no PUT and no chat message, not even a denial for an
\* unauthorized sender; so a call or a message implies both were present.
C12_DroppedUnlessBoth ==
    \A r \in 1..MaxRuns :
        /\ ~AsksForMerge(runs[r].event) =>
              /\ runs[r].gets = 0
              /\ runs[r].puts = 0
              /\ runs[r].posts = 0
              /\ runs[r].merge = "not called"
              /\ runs[r].pc \in {"free", "queued", "returned"}
        /\ (runs[r].gets > 0 \/ runs[r].posts > 0) => AsksForMerge(runs[r].event)

\* An unauthorized sender's message with a URL and no merge intent, and one
\* with merge intent and no URL, were dropped in silence.
C12_Witness ==
    \E r \in 1..MaxRuns :
        /\ ~BotOrigin(runs[r].event)
        /\ ~OnAllowList(runs[r].event)
        /\ runs[r].event.text.t = "string"
        /\ \/ /\ \E i \in 1..Len(runs[r].event.text.s) :
                     PrUrlMatchAt(runs[r].event.text.s, i).ok
              /\ ~has_merge_intent(runs[r].event.text.s)
           \/ /\ \A i \in 1..Len(runs[r].event.text.s) :
                     ~PrUrlMatchAt(runs[r].event.text.s, i).ok
              /\ has_merge_intent(runs[r].event.text.s)
        /\ runs[r].pc = "returned"
        /\ runs[r].posts = 0

\* C13: an event with a bot-origin marker (a bot_id, or the subtype
\* "bot_message") is discarded: no chat message and no call to the platform,
\* whatever its text and its sender.
C13_BotEventsDiscarded ==
    \A r \in 1..MaxRuns :
        BotOrigin(runs[r].event) =>
            /\ runs[r].gets = 0
            /\ runs[r].puts = 0
            /\ runs[r].posts = 0
            /\ runs[r].merge = "not called"
            /\ runs[r].pc \in {"queued", "returned"}

\* A merge request of an authorized sender that carries a bot_id and no
\* bot subtype was discarded.
C13_Witness ==
    \E r \in 1..MaxRuns :
        /\ runs[r].event.bot_id # JAbsent
        /\ runs[r].event.subtype = JAbsent
        /\ AsksForMerge(runs[r].event)
        /\ OnAllowList(runs[r].event)
        /\ runs[r].pc = "returned"
        /\ runs[r].posts = 0

(***************************************************************************)
(* SpecRace: several runs of handle_message_event for one pull request,    *)
(* against a platform that answers every call from the state it holds for  *)
(* the pull request and merges it at most once.                            *)
(***************************************************************************)
Racers == 2

\* The triggers: messages of a sender on the allow-list that ask to merge
\* pull request 7, as a reply in thread T or at top level.
RaceEvents ==
    [bot_id : {JAbsent}, subtype : {JAbsent},
     text : {JStr(<<"m", "e", "r", "g", "e", " ">> \o pr_url)},
     channel : {JStr(<<"C">>)}, thread_ts : {JStr(<<"T">>), JAbsent},
     ts : {JStr(<<"M">>)}, user : {JStr(<<"a">>)}]

\* The platform's answer to GET .../pulls/7: open and mergeable (or
\* mergeability still being computed) until merged, merged and closed after.
PlatformGet(p) ==
    IF p.merged
    THEN {[status_code |-> 200, json |-> "object", merged |-> JTrue,
           state |-> JStr(closed), mergeable |-> m, message |-> JAbsent] :
             m \in {JNull, JFalse}}
    ELSE {[status_code |-> 200, json |-> "object", merged |-> JFalse,
           state |-> JStr(<<"o", "p", "e", "n">>), mergeable |-> m,
           message |-> JAbsent] : m \in {JNull, JTrue}}

\* The platform's answer to PUT .../pulls/7/merge: 200 when this call
\* merges the pull request, 405 "Pull Request is not mergeable" or 409
\* when it is merged already.
PlatformPut(p) ==
    IF p.merged
    THEN {[status_code |-> 405, json |-> "object", merged |-> JAbsent,
           state |-> JAbsent, mergeable |-> JAbsent,
           message |-> JStr(<<"P", "u", "l", "l", " ", "R", "e", "q", "u", "e", "s",
                              "t", " ", "i", "s", " ">> \o not_mergeable)],
          [status_code |-> 409, json |-> "object", merged |-> JAbsent,
           state |-> JAbsent, mergeable |-> JAbsent, message |-> JAbsent]}
    ELSE {[status_code |-> 200, json |-> "object", merged |-> JTrue,
           state |-> JAbsent, mergeable |-> JAbsent,
           message |-> JStr(<<"m", "e", "r", "g", "e", "d">>)]}

InitRace ==
    /\ \E events \in [1..Racers -> RaceEvents] :
          runs = [r \in 1..Racers |->
                     [FreeRun EXCEPT !.pc = "queued", !.event = events[r],
                                     !.verified = "True"]]
    /\ last = [json |-> "object", type |-> JStr(event_callback), challenge |-> JAbsent,
               message_callback |-> TRUE, signed |-> TRUE,
               response |-> Response(200, "True", TRUE, JAbsent)]
    /\ call = NoCall
    /\ ret = NoRet
    /\ pull = NoPull

\* The platform answers the GET of run r, and merge_pull_request goes on
\* from the return of _get_pr_state.
PlatformAnswersGet(r) ==
    /\ runs[r].pc = "get_wait"
    /\ \E response \in PlatformGet(pull) :
          runs' = [runs EXCEPT ![r] = merge_after_get(runs[r], get_pr_state(response))]
    /\ pull' = [pull EXCEPT !.log = Append(@, <<"GET", r>>)]
    /\ UNCHANGED <<last, call, ret>>

\* The platform answers the PUT of run r, merging the pull request if it
\* is not merged yet, and merge_pull_request returns what
\* _parse_merge_response makes of the answer.
PlatformAnswersPut(r) ==
    /\ runs[r].pc = "put_wait"
    /\ \E response \in PlatformPut(pull) :
          runs' = [runs EXCEPT ![r] =
                      merge_after_put(runs[r], parse_merge_response(response))]
    /\ pull' = [merged |-> TRUE, log |-> Append(pull.log, <<"PUT", r>>)]
    /\ UNCHANGED <<last, call, ret>>

NextRace ==
    \E r \in 1..Racers :
        \/ HandleMessageEvent(r)
        \/ PlatformAnswersGet(r)
        \/ PlatformAnswersPut(r)
        \/ PostReturns(r)
        \/ PostFails(r)

SpecRace == InitRace /\ [][NextRace]_vars

\* The platform answered a PUT of run r before any other PUT.
ReachedMergeFirst(r) ==
    \E i \in 1..Len(pull.log) :
        /\ pull.log[i] = <<"PUT", r>>
        /\ \A j \in 1..(i - 1) : pull.log[j][1] # "PUT"

\* C14: of the concurrent runs for one open, mergeable pull request, in
\* every interleaving, the run whose merge call reaches the platform first
\* reports SUCCESS and every other run reports ALREADY_MERGED or CONFLICT;
\* no two runs report SUCCESS.
C14_OneSuccessPerPull ==
    /\ \A r \in 1..Racers :
          /\ runs[r].merge # "raised"
          /\ runs[r].merge = "returned" =>
                IF ReachedMergeFirst(r)
                THEN runs[r].result = "SUCCESS"
                ELSE runs[r].result \in {"ALREADY_MERGED", "CONFLICT"}
    /\ \A r, q \in 1..Racers :
          (runs[r].result = "SUCCESS" /\ runs[q].result = "SUCCESS") => r = q

\* Both runs saw the pull request open; the PUT of the second was answered
\* first, so the second reported SUCCESS and the first CONFLICT.
C14_Witness ==
    /\ Len(pull.log) = 4
    /\ pull.log[1][1] = "GET"
    /\ pull.log[2][1] = "GET"
    /\ pull.log[3] = <<"PUT", 2>>
    /\ runs[2].result = "SUCCESS"
    /\ runs[1].result = "CONFLICT"
    /\ runs[1].pc = "done"
    /\ runs[2].pc = "done"

(***************************************************************************)
(* Properties of extract_pr and has_merge_intent                           *)
(***************************************************************************)
\* Alphanumerics, ".", "_" and "-".
AllowedInNames ==
    Range(UpperLetters) \cup Range(LowerLetters) \cup Digits \cup {".", "_", "-"}

\* s occurs in text
OccursIn(s, text) ==
    \E i \in 1..(Len(text) - Len(s) + 1) : SubSeq(text, i, i + Len(s) - 1) = s

\* C15: every ParsedPR that extract_pr returns has an owner and a repo made
\* of alphanumerics, ".", "_" and "-" only, a pull_number that is an integer
\* greater than 0, and as url the substring of the text that was matched.
C15_ParsedPRInvariant ==
    (call.fn = "extract_pr" /\ ret.done /\ ret.out.value.found) =>
        LET pr == ret.out.value
        IN  /\ Range(pr.owner) \subseteq AllowedInNames
            /\ Range(pr.repo) \subseteq AllowedInNames
            /\ pr.pull_number \in Nat
            /\ pr.pull_number > 0
            /\ OccursIn(pr.url, call.text)
            /\ \E n \in 1..Len(pr.url) :
                  LET number == SubSeq(pr.url, Len(pr.url) - n + 1, Len(pr.url))
                  IN  /\ Range(number) \subseteq Digits
                      /\ DigitsVal(number) = pr.pull_number
                      /\ pr.url = github_prefix \o pr.owner \o <<"/">> \o pr.repo
                                     \o pull_infix \o number

\* text[o..] starts with an owner or repo name of n characters.
NameAt(text, o, n) ==
    /\ n >= 1
    /\ o + n - 1 <= Len(text)
    /\ \A k \in o..(o + n - 1) : text[k] \in AllowedInNames

\* text[i..] starts with lit
LiteralAt(text, i, lit) ==
    /\ i + Len(lit) - 1 <= Len(text)
    /\ SubSeq(text, i, i + Len(lit) - 1) = lit

\* text[n..j] is a number, and the digits do not go on after j.
NumberAt(text, n, j) ==
    /\ n <= j
    /\ j <= Len(text)
    /\ \A k \in n..j : text[k] \in Digits
    /\ (j < Len(text) => text[j + 1] \notin Digits)

\* text[i..j] is <platform>/<owner>/<repo>/pull/<number> with an owner of
\* a and a repo of b characters.
IsPrUrl(text, i, a, b, j) ==
    LET o == i + Len(github_prefix)
        r == o + a + 1
        n == r + b + Len(pull_infix)
    IN  /\ LiteralAt(text, i, github_prefix)
        /\ NameAt(text, o, a)
        /\ LiteralAt(text, o + a, <<"/">>)
        /\ NameAt(text, r, b)
        /\ LiteralAt(text, r + b, pull_infix)
        /\ NumberAt(text, n, j)

\* A pull-request URL starts at position i of the text.
UrlStartsAt(text, i) ==
    /\ LiteralAt(text, i, github_prefix)
    /\ \E a \in 1..Len(text) :
          /\ NameAt(text, i + Len(github_prefix), a)
          /\ LiteralAt(text, i + Len(github_prefix) + a, <<"/">>)
          /\ \E b \in 1..Len(text) :
                /\ NameAt(text, i + Len(github_prefix) + a + 1, b)
                /\ \E j \in i..Len(text) : IsPrUrl(text, i, a, b, j)

\* C16: extract_pr is total; it returns None exactly when the text holds
\* no URL <platform>/<owner>/<repo>/pull/<number>, and else the owner, the
\* repo, the number and the url of the first URL in the text, whatever
\* comes after it.
C16_FirstUrlOnly ==
    (call.fn = "extract_pr" /\ ret.done) =>
        LET pr == ret.out.value
            text == call.text
        IN  /\ ret.out.exc = ""
            /\ ~pr.found <=> (\A i \in 1..Len(text) : ~UrlStartsAt(text, i))
            /\ ~pr.found => pr = NoPR
            /\ pr.found =>
                  \E i \in 1..Len(text) :
                      /\ UrlStartsAt(text, i)
                      /\ \A k \in 1..(i - 1) : ~UrlStartsAt(text, k)
                      /\ \E a \in 1..Len(text) :
                            /\ NameAt(text, i + Len(github_prefix), a)
                            /\ pr.owner = SubSeq(text, i + Len(github_prefix),
                                                 i + Len(github_prefix) + a - 1)
                            /\ \E b \in 1..Len(text) :
                                  /\ NameAt(text, i + Len(github_prefix) + a + 1, b)
                                  /\ pr.repo = SubSeq(text, i + Len(github_prefix) + a + 1,
                                                      i + Len(github_prefix) + a + b)
                                  /\ \E j \in i..Len(text) :
                                        /\ IsPrUrl(text, i, a, b, j)
                                        /\ pr.pull_number = DigitsVal(SubSeq(text,
                                               i + Len(github_prefix) + a + b
                                                 + Len(pull_infix) + 1, j))
                                        /\ pr.url = SubSeq(text, i, j)

\* From a text with the URL of o/r pull 7 followed by that of p/q pull 9,
\* extract_pr returned the first.
C16_Witness ==
    /\ call.fn = "extract_pr"
    /\ ret.done
    /\ OccursIn(github_prefix \o <<"p", "/", "q">> \o pull_infix \o <<"9">>, call.text)
    /\ ret.out.value.found
    /\ ret.out.value.owner = <<"o">>
    /\ ret.out.value.repo = <<"r">>
    /\ ret.out.value.pull_number = 7
    /\ ret.out.value.url = github_prefix \o <<"o", "/", "r">> \o pull_infix \o <<"7">>

\* Letters, digits and "_": the characters words are made of.
InWords == Range(UpperLetters) \cup Range(LowerLetters) \cup Digits \cup {"_"} \cup NonAscii

\* w is "merge", or "can u" or "please merge" with any whitespace between
\* the two words, in any letter case.
IsKeyword(w) ==
    \/ lower(w) = <<"m", "e", "r", "g", "e">>
    \/ \E first \in {<<"c", "a", "n">>, <<"p", "l", "e", "a", "s", "e">>} :
          LET second == IF first = <<"c", "a", "n">> THEN <<"u">>
                        ELSE <<"m", "e", "r", "g", "e">>
              gap == Len(w) - Len(first) - Len(second)
          IN  /\ gap >= 1
              /\ lower(SubSeq(w, 1, Len(first))) = first
              /\ \A k \in (Len(first) + 1)..(Len(first) + gap) : w[k] \in Whitespace
              /\ lower(SubSeq(w, Len(first) + gap + 1, Len(w))) = second

\* text[i..j] is not part of a longer word.
WholeWords(text, i, j) ==
    /\ (i > 1 => text[i - 1] \notin InWords)
    /\ (j < Len(text) => text[j + 1] \notin InWords)

\* C17: has_merge_intent returns true exactly when the text holds, in any
\* letter case, the word "merge" or the phrases "can u" / "please merge" as
\* whole words, and false when they occur only inside longer words.
C17_WholeWordIntent ==
    (call.fn = "has_merge_intent" /\ ret.done) =>
        (ret.out.value <=>
            \E i \in 1..Len(call.text), j \in 1..Len(call.text) :
                /\ i <= j
                /\ IsKeyword(SubSeq(call.text, i, j))
                /\ WholeWords(call.text, i, j))

(***************************************************************************)
(* Properties of slack_events                                              *)
(***************************************************************************)
\* C18: a request is answered with success without a signature check that
\* returned true only if its payload type is "url_verification"; that
\* answer echoes the challenge field as it came and queues no event.
C18_ExemptionOnlyForChallenge ==
    /\ (last.response.status_code = 200 /\ last.response.verify # "True") =>
          last.type = JStr(url_verification)
    /\ (last.json = "object" /\ last.type = JStr(url_verification)) =>
          /\ last.response.status_code = 200
          /\ last.response.verify = "not called"
          /\ ~last.response.add_task
          /\ last.challenge # JAbsent => last.response.challenge = last.challenge
    /\ last.response.challenge # JAbsent => last.type = JStr(url_verification)

\* A url_verification payload that was not correctly signed got its
\* challenge back.
C18_Witness ==
    /\ last.type = JStr(url_verification)
    /\ ~last.signed
    /\ last.challenge = JStr(<<"x">>)
    /\ last.response.status_code = 200
    /\ last.response.challenge = JStr(<<"x">>)
    /\ \A r \in 1..MaxRuns : runs[r].pc = "free"

\* C19: a request whose body is not JSON is answered 400; the signature is
\* not checked for it and no event is queued, so every task there is comes
\* from a request that was parsed and verified.
C19_MalformedJsonRejected ==
    /\ last.json = "malformed" =>
          /\ last.response.status_code = 400
          /\ last.response.verify = "not called"
          /\ ~last.response.add_task
    /\ last.response.add_task => last.json = "object"
    /\ (last.json = "malformed" /\ \A r \in 1..MaxRuns : Ended(runs[r])) =>
          \A r \in 1..MaxRuns : runs[r].gets + runs[r].puts + runs[r].posts = 0
                                   \/ runs[r].verified = "True"

\* A correctly signed request with a malformed body was answered 400 and
\* nothing was queued.
C19_Witness ==
    /\ last.json = "malformed"
    /\ last.signed
    /\ last.response.status_code = 400
    /\ \A r \in 1..MaxRuns : runs[r].pc = "free"

\* C20: of the correctly signed requests, those whose payload is an event
\* callback with a message event are forwarded to the pipeline, once each;
\* every other correctly signed payload is answered with success and
\* nothing is queued for it.
C20_OnlyMessageCallbacksForwarded ==
    (last.signed /\ last.json # "malformed") =>
        /\ last.response.status_code = 200
        /\ last.response.add_task <=> last.message_callback

\* A step in which background_tasks.add_task queues a task in slot r.
Queues(r) == runs'[r] # runs[r] /\ runs'[r].pc = "queued"

\* A step of the task in slot r.
TaskStep(r) == runs'[r] # runs[r] /\ runs'[r].pc # "queued"

\* C21: a correctly signed message event is acknowledged with success, and
\* the acknowledgment is detached from the pipeline: when it is given the
\* task is queued and has issued no GET, PUT or chat message, and no later
\* step of the task (completing, dropping the event, failing) changes it.
C21_AckDetached ==
    /\ [](last.signed /\ last.message_callback =>
            /\ last.response.status_code = 200
            /\ last.response.add_task
            /\ last.response.challenge = JAbsent)
    /\ [][\A r \in 1..MaxRuns :
            /\ Queues(r) =>
                  /\ last'.response.status_code = 200
                  /\ last'.message_callback
                  /\ runs'[r].gets + runs'[r].puts + runs'[r].posts = 0
                  /\ \A q \in 1..MaxRuns : q # r => runs'[q] = runs[q]
            /\ TaskStep(r) => last' = last]_vars

\* C22: verify_slack_signature gives a value on every input: for any body
\* bytes (those that are not UTF-8 too), any timestamp header and any
\* signature header (text outside ASCII too) it returns true or false and
\* never raises.
C22_VerifyFailsClosed ==
    (call.fn = "verify_slack_signature" /\ ret.done) =>
        /\ ret.out.exc = ""
        /\ ret.out.value \in BOOLEAN

=============================================================================
